---- MODULE Spec2Model ----
(***************************************************************************)
(* State-machine model of yawc (a terminal Wordle clone): the Game struct  *)
(* of src/src/game.rs, the Keyboard of src/src/keyboard.rs and the raw     *)
(* terminal guard of src/src/raw.rs.                                       *)
(*                                                                         *)
(* Characters are modelled by their ASCII codes ('a' = 97, 'c' = 99,       *)
(* 'C' = 67, 'n' = 110, 'y' = 121), strings by sequences of codes, because *)
(* check_word works on bytes and uses the byte 0 as "consumed" marker.     *)
(***************************************************************************)
EXTENDS Naturals, Integers, Sequences, FiniteSets

VARIABLES
    secret_word,  \* Game.secret_word
    guesses,      \* Game.guesses : sequence of <<word, matches>>
    guess,        \* Game.guess   : the text being typed
    keyboard,     \* Game.keyboard: letter -> "None" | Match
    raw,          \* terminal raw mode is enabled
    alt,          \* alternate screen entered, cursor hidden
    pc,           \* "new" | "play" | "prompt" | "done" | "error" | "panic"
    prompt,       \* local `state` of final_prompt: "" | "won" | "loose"
    event,        \* the last value returned by event::read()
    cw_secret,    \* argument of a stand-alone check_word call
    cw_guess,     \* argument of a stand-alone check_word call
    cw_matches    \* its result (<<>> before the call)

vars == <<secret_word, guesses, guess, keyboard, raw, alt, pc, prompt, event,
          cw_secret, cw_guess, cw_matches>>

gameVars == <<secret_word, guesses, guess, keyboard, raw, alt, pc, prompt, event>>
cwVars == <<cw_secret, cw_guess, cw_matches>>

----------------------------------------------------------------------------
\* Bounds of the model

\* number of lowercase letters the player types during play (taken from
\* TypedOrder); also the alphabet of the stand-alone check_word calls
NumKeys == 2

\* number of letters of the alphabet of the stand-alone check_word calls
NumCwLetters == 3

----------------------------------------------------------------------------
\* Program constants

\* length of a word: [Match; 5], guess.len() < 5, guess.len() == 5
WordLen == 5

\* number of guesses of a round: guesses.len() >= 6
MaxGuesses == 6

Match == {"Correct", "Misplaced", "Incorrect"}

AllCorrect == [i \in 1..WordLen |-> "Correct"]

\* "qwertyuiopasdfghjklzxcvbnm"
letters == <<113, 119, 101, 114, 116, 121, 117, 105, 111, 112,
             97, 115, 100, 102, 103, 104, 106, 107, 108,
             122, 120, 99, 118, 98, 110, 109>>

Range(s) == {s[i] : i \in 1..Len(s)}

\* the word lists of words.rs, reduced to three words over {a, c}
\* "accca", "caccc"
WORDS == {<<97, 99, 99, 99, 97>>, <<99, 97, 99, 99, 99>>}

\* "acccc"
ACCEPTABLE == {<<97, 99, 99, 99, 99>>}

----------------------------------------------------------------------------
\* Pure functions

is_ascii_lowercase(c) == c \in 97..122

is_ascii_alphabetic(c) == c \in 65..90 \/ c \in 97..122

\* is_valid_word looking into ACCEPTABLE only
is_valid_wordAcceptableOnly(word) == word \in ACCEPTABLE

is_valid_word(word) == word \in WORDS \/ word \in ACCEPTABLE

\* u8::to_ascii_lowercase
to_ascii_lowercase(c) == IF c \in 65..90 THEN c + 32 ELSE c

\* the word with every byte lowercased
lowercase(w) == [i \in 1..Len(w) |-> to_ascii_lowercase(w[i])]

\* Iterator::position: index of the first element equal to c, 0 for None
position(sw, c) ==
    IF \E j \in 1..Len(sw) : sw[j] = c
    THEN CHOOSE j \in 1..Len(sw) : sw[j] = c /\ \A k \in 1..(j-1) : sw[k] # c
    ELSE 0

\* the first loop without `secret_word[i] = 0`: an exact match is not consumed
RECURSIVE CorrectPassKeeps(_, _, _, _)
CorrectPassKeeps(sw, g, matches, i) ==
    IF i > Len(g) THEN [sw |-> sw, matches |-> matches]
    ELSE IF sw[i] = g[i]
         THEN CorrectPassKeeps(sw, g, [matches EXCEPT ![i] = "Correct"], i + 1)
         ELSE CorrectPassKeeps(sw, g, matches, i + 1)

\* first loop of check_word, from index i on
RECURSIVE CorrectPass(_, _, _, _)
CorrectPass(sw, g, matches, i) ==
    IF i > Len(g) THEN [sw |-> sw, matches |-> matches]
    ELSE IF sw[i] = g[i]
         THEN CorrectPass([sw EXCEPT ![i] = 0], g,
                          [matches EXCEPT ![i] = "Correct"], i + 1)
         ELSE CorrectPass(sw, g, matches, i + 1)

\* the second loop without `secret_word[j] = 0`: a misplaced letter is not
\* consumed
RECURSIVE MisplacedPassKeeps(_, _, _, _)
MisplacedPassKeeps(sw, g, matches, i) ==
    IF i > Len(g) THEN [sw |-> sw, matches |-> matches]
    ELSE IF matches[i] # "Incorrect"
         THEN MisplacedPassKeeps(sw, g, matches, i + 1)
         ELSE IF position(sw, g[i]) # 0
              THEN MisplacedPassKeeps(sw, g,
                                      [matches EXCEPT ![i] = "Misplaced"], i + 1)
              ELSE MisplacedPassKeeps(sw, g, matches, i + 1)

\* second loop of check_word, from index i on
RECURSIVE MisplacedPass(_, _, _, _)
MisplacedPass(sw, g, matches, i) ==
    IF i > Len(g) THEN [sw |-> sw, matches |-> matches]
    ELSE IF matches[i] # "Incorrect"
         THEN MisplacedPass(sw, g, matches, i + 1)
         ELSE LET j == position(sw, g[i])
              IN IF j # 0
                 THEN MisplacedPass([sw EXCEPT ![j] = 0], g,
                                    [matches EXCEPT ![i] = "Misplaced"], i + 1)
                 ELSE MisplacedPass(sw, g, matches, i + 1)

\* check_word lowercasing the guess but not the secret
check_wordLowersGuess(secret, g) ==
    LET first == CorrectPass(secret, lowercase(g),
                             [i \in 1..WordLen |-> "Incorrect"], 1)
    IN MisplacedPass(first.sw, lowercase(g), first.matches, 1).matches

check_word(secret, g) ==
    LET first == CorrectPass(secret, g, [i \in 1..WordLen |-> "Incorrect"], 1)
    IN MisplacedPass(first.sw, g, first.matches, 1).matches

\* check_word zeroing the bytes of the caller's secret instead of a copy
SecretAfterCheckConsumed(secret, g) ==
    LET first == CorrectPass(secret, g, [i \in 1..WordLen |-> "Incorrect"], 1)
    IN MisplacedPass(first.sw, g, first.matches, 1).sw

\* the caller's secret after check_word: the function zeroes the bytes of
\* its own copy (`secret_word.as_bytes().to_vec()`), the argument is intact
SecretAfterCheck(secret, g) == secret

\* Keyboard::new
KeyboardNew == [c \in Range(letters) |-> "None"]

\* precedence of a keyboard mark: Correct > Misplaced > Incorrect > unmarked
Rank(m) ==
    IF m = "Correct" THEN 3
    ELSE IF m = "Misplaced" THEN 2
    ELSE IF m = "Incorrect" THEN 1
    ELSE 0

\* mark_letter keeping the higher of the old and the new mark
mark_letterMonotone(kb, letter, mark) ==
    IF letter \in DOMAIN kb /\ Rank(mark) > Rank(kb[letter])
    THEN [kb EXCEPT ![letter] = mark]
    ELSE kb

\* Keyboard::mark_letter
mark_letter(kb, letter, mark) ==
    IF letter \in DOMAIN kb THEN [kb EXCEPT ![letter] = mark] ELSE kb

\* mark_letters run after the guess text has been taken: the zip is empty
mark_lettersTaken(kb, g, matches, n) == kb

\* the loop of Game::mark_letters(Some(matches)) over the first n pairs of
\* matches_.iter().zip(self.guess.chars())
RECURSIVE mark_letters(_, _, _, _)
mark_letters(kb, g, matches, n) ==
    IF n = 0 THEN kb
    ELSE mark_letter(mark_letters(kb, g, matches, n - 1), g[n], matches[n])

\* is_win with `<` for `<=`: a match on the last attempt is not a win
is_winEarly(gs) == gs[Len(gs)][2] = AllCorrect /\ Len(gs) < MaxGuesses

is_win(gs) == gs[Len(gs)][2] = AllCorrect /\ Len(gs) <= MaxGuesses

\* is_loose with `>` for `>=`: the sixth failed guess does not end the round
is_looseLate(gs) == gs[Len(gs)][2] # AllCorrect /\ Len(gs) > MaxGuesses

is_loose(gs) == gs[Len(gs)][2] # AllCorrect /\ Len(gs) >= MaxGuesses

----------------------------------------------------------------------------
\* Input events (crossterm::event::Event)

NoEvent == [type |-> "None", code |-> "", ch |-> 0, modifiers |-> ""]

KeyChar(c, m) == [type |-> "Key", code |-> "Char", ch |-> c, modifiers |-> m]

Key(code) == [type |-> "Key", code |-> code, ch |-> 0, modifiers |-> "NONE"]

Resize == [type |-> "Resize", code |-> "", ch |-> 0, modifiers |-> ""]

Mouse == [type |-> "Mouse", code |-> "", ch |-> 0, modifiers |-> ""]

\* 'a', 'c', 'b', 'd', ... : the letters typed during play, 'c' among them
TypedOrder == <<97, 99, 98, 100, 101, 102>>

TypedLetters == {TypedOrder[i] : i \in 1..NumKeys}

\* events fed to the input loop of main_loop: the typed letters, Ctrl-c,
\* Ctrl-C, 'C', Backspace, Enter, a resize, a mouse event
PlayEvents ==
    {KeyChar(c, "NONE") : c \in TypedLetters \cup {67}}
    \cup {KeyChar(c, "CONTROL") : c \in {99, 67}}
    \cup {Key("Backspace"), Key("Enter"), Resize, Mouse}

\* events fed to final_prompt: 'y', 'n', 'c' and 'C' plain or with CONTROL,
\* Backspace, Enter, a resize, a mouse event
PromptEvents ==
    {KeyChar(c, m) : c \in {121, 110, 99, 67}, m \in {"NONE", "CONTROL"}}
    \cup {Key("Backspace"), Key("Enter"), Resize, Mouse}

\* the match of main_loop without the guard `self.guess.len() < 5`
ArmUnbounded(ev, g) ==
    IF ev.type = "Resize" THEN "resize"
    ELSE IF ev.type = "Mouse" THEN "mouse"
    ELSE IF ev.code = "Char" /\ ev.ch \in {67, 99} /\ ev.modifiers = "CONTROL"
         THEN "quit"
    ELSE IF ev.code = "Char" /\ is_ascii_alphabetic(ev.ch)
            /\ is_ascii_lowercase(ev.ch)
         THEN "push"
    ELSE IF ev.code = "Backspace" THEN "pop"
    ELSE IF ev.code = "Enter" /\ Len(g) = WordLen THEN "guess"
    ELSE "ignore"

\* the match of main_loop without the guard `c.is_ascii_lowercase()`
ArmAnyLetter(ev, g) ==
    IF ev.type = "Resize" THEN "resize"
    ELSE IF ev.type = "Mouse" THEN "mouse"
    ELSE IF ev.code = "Char" /\ ev.ch \in {67, 99} /\ ev.modifiers = "CONTROL"
         THEN "quit"
    ELSE IF ev.code = "Char" /\ is_ascii_alphabetic(ev.ch) /\ Len(g) < WordLen
         THEN "push"
    ELSE IF ev.code = "Backspace" THEN "pop"
    ELSE IF ev.code = "Enter" /\ Len(g) = WordLen THEN "guess"
    ELSE "ignore"

\* the arm of the match in main_loop that an event takes
Arm(ev, g) ==
    IF ev.type = "Resize" THEN "resize"
    ELSE IF ev.type = "Mouse" THEN "mouse"
    ELSE IF ev.code = "Char" /\ ev.ch \in {67, 99} /\ ev.modifiers = "CONTROL"
         THEN "quit"
    ELSE IF ev.code = "Char" /\ is_ascii_alphabetic(ev.ch)
            /\ is_ascii_lowercase(ev.ch) /\ Len(g) < WordLen
         THEN "push"
    ELSE IF ev.code = "Backspace" THEN "pop"
    ELSE IF ev.code = "Enter" /\ Len(g) = WordLen THEN "guess"
    ELSE "ignore"

\* the match of final_prompt taking Enter for 'y'
PromptArmEnterYes(ev) ==
    IF ev.type = "Resize" THEN "resize"
    ELSE IF ev.type = "Mouse" THEN "mouse"
    ELSE IF ev.code = "Char" /\ ev.ch = 121 THEN "yes"
    ELSE IF ev.code = "Enter" THEN "yes"
    ELSE IF ev.code = "Char" /\ ev.ch = 110 THEN "no"
    ELSE "ignore"

\* the arm of the match in final_prompt that an event takes
PromptArm(ev) ==
    IF ev.type = "Resize" THEN "resize"
    ELSE IF ev.type = "Mouse" THEN "mouse"
    ELSE IF ev.code = "Char" /\ ev.ch = 121 THEN "yes"
    ELSE IF ev.code = "Char" /\ ev.ch = 110 THEN "no"
    ELSE "ignore"

----------------------------------------------------------------------------
\* The game

\* the fields of Game::new, evaluated before Terminal::new is called
Init ==
    /\ secret_word \in WORDS
    /\ guesses = <<>>
    /\ guess = <<>>
    /\ keyboard = KeyboardNew
    /\ raw = FALSE
    /\ alt = FALSE
    /\ pc = "new"
    /\ prompt = ""
    /\ event = NoEvent
    /\ cw_secret = <<>>
    /\ cw_guess = <<>>
    /\ cw_matches = <<>>

\* main_loop returns and the Game it owns is dropped: its guesses, guess and
\* keyboard are gone (modelled by their empty values) and Drop for Terminal
\* restores the terminal
Drop ==
    /\ guesses' = <<>>
    /\ guess' = <<>>
    /\ keyboard' = KeyboardNew
    /\ prompt' = ""
    /\ raw' = FALSE
    /\ alt' = FALSE

\* an io::Error propagated by `?` out of main_loop: the Game is dropped, main
\* prints the error and exits with status 1
Fail ==
    /\ pc' = "error"
    /\ Drop

----------------------------------------------------------------------------
\* Game::new: Terminal::new()

\* enable_raw_mode and execute! succeed; main_loop draws the first screen
TerminalNew ==
    /\ pc = "new"
    /\ raw' = TRUE
    /\ alt' = TRUE
    /\ pc' = "play"
    /\ UNCHANGED <<secret_word, guesses, guess, keyboard, prompt, event, cwVars>>

\* enable_raw_mode()? fails: no Terminal exists, nothing to restore
EnableRawModeFails ==
    /\ pc = "new"
    /\ pc' = "error"
    /\ UNCHANGED <<secret_word, guesses, guess, keyboard, raw, alt, prompt,
                   event, cwVars>>

\* execute!(..)? fails after enable_raw_mode: no Terminal was constructed,
\* so Drop for Terminal does not run
ExecuteFails ==
    /\ pc = "new"
    /\ raw' = TRUE
    /\ alt' \in BOOLEAN
    /\ pc' = "error"
    /\ UNCHANGED <<secret_word, guesses, guess, keyboard, prompt, event, cwVars>>

----------------------------------------------------------------------------
\* Game::main_loop: the input loop of a round

\* event::read()?, or a size()?, execute!, write! or flush of the handler of
\* the event or of the redraw that follows it, fails
PlayFails ==
    /\ pc = "play"
    /\ Fail
    /\ UNCHANGED <<secret_word, event, cwVars>>

\* KeyCode::Char('C' | 'c') if k.modifiers == KeyModifiers::CONTROL
CtrlC ==
    /\ pc = "play"
    /\ \E ev \in PlayEvents :
          /\ Arm(ev, guess) = "quit"
          /\ event' = ev
    /\ pc' = "done"
    /\ Drop
    /\ UNCHANGED <<secret_word, cwVars>>

\* KeyCode::Char(c) if lowercase letter and guess.len() < 5
TypeLetter ==
    /\ pc = "play"
    /\ \E ev \in PlayEvents :
          /\ Arm(ev, guess) = "push"
          /\ event' = ev
          /\ guess' = Append(guess, ev.ch)
    /\ UNCHANGED <<secret_word, guesses, keyboard, raw, alt, pc, prompt, cwVars>>

\* KeyCode::Backspace: String::pop
Backspace ==
    /\ pc = "play"
    /\ \E ev \in PlayEvents :
          /\ Arm(ev, guess) = "pop"
          /\ event' = ev
    /\ guess' = IF guess = <<>> THEN guess ELSE SubSeq(guess, 1, Len(guess) - 1)
    /\ UNCHANGED <<secret_word, guesses, keyboard, raw, alt, pc, prompt, cwVars>>

\* the `_ => {}` arm: every other key
IgnoredKey ==
    /\ pc = "play"
    /\ \E ev \in PlayEvents :
          /\ Arm(ev, guess) = "ignore"
          /\ event' = ev
    /\ UNCHANGED <<secret_word, guesses, guess, keyboard, raw, alt, pc, prompt,
                   cwVars>>

\* Event::Resize: clear the screen and redraw
ResizeEvent ==
    /\ pc = "play"
    /\ \E ev \in PlayEvents :
          /\ Arm(ev, guess) = "resize"
          /\ event' = ev
    /\ UNCHANGED <<secret_word, guesses, guess, keyboard, raw, alt, pc, prompt,
                   cwVars>>

\* Event::Mouse
MouseEvent ==
    /\ pc = "play"
    /\ \E ev \in PlayEvents :
          /\ Arm(ev, guess) = "mouse"
          /\ event' = ev
    /\ UNCHANGED <<secret_word, guesses, guess, keyboard, raw, alt, pc, prompt,
                   cwVars>>

----------------------------------------------------------------------------
\* Game::guess, called for KeyCode::Enter if guess.len() == 5

\* final_prompt with the two branches swapped
final_stateSwapped(gs) == IF is_win(gs) THEN "loose" ELSE "won"

\* `state` of final_prompt
final_state(gs) == IF is_win(gs) THEN "won" ELSE "loose"

\* Option::unwrap of self.guesses.last() in is_win and is_loose panics on an
\* empty history
unwrap_panics(gs) == gs = <<>>

\* Game::guess testing is_win and is_loose before the push
GuessAcceptedChecksFirst ==
    /\ pc = "play"
    /\ \E ev \in PlayEvents :
          /\ Arm(ev, guess) = "guess"
          /\ event' = ev
    /\ is_valid_word(guess)
    /\ LET matches_ == check_word(secret_word, guess)
       IN /\ keyboard' = mark_letters(keyboard, guess, matches_, WordLen)
          /\ guesses' = Append(guesses, <<guess, matches_>>)
          /\ guess' = <<>>
          /\ secret_word' = SecretAfterCheck(secret_word, guess)
    /\ IF unwrap_panics(guesses)
       THEN pc' = "panic" /\ UNCHANGED prompt
       ELSE IF is_win(guesses) \/ is_loose(guesses)
       THEN /\ pc' = "prompt"
            /\ prompt' = final_state(guesses)
       ELSE UNCHANGED <<pc, prompt>>
    /\ UNCHANGED <<raw, alt, cwVars>>

\* the word is valid: it is classified, marked on the keyboard and pushed;
\* is_win and is_loose unwrap the last guess; on Win or Loose the round loop
\* is left for final_prompt
GuessAccepted ==
    /\ pc = "play"
    /\ \E ev \in PlayEvents :
          /\ Arm(ev, guess) = "guess"
          /\ event' = ev
    /\ is_valid_word(guess)
    /\ LET matches_ == check_word(secret_word, guess)
       IN /\ keyboard' = mark_letters(keyboard, guess, matches_, WordLen)
          /\ guesses' = Append(guesses, <<guess, matches_>>)
          /\ guess' = <<>>
          /\ secret_word' = SecretAfterCheck(secret_word, guess)
    /\ IF unwrap_panics(guesses')
       THEN pc' = "panic" /\ UNCHANGED prompt
       ELSE IF is_win(guesses') \/ is_loose(guesses')
       THEN /\ pc' = "prompt"
            /\ prompt' = final_state(guesses')
       ELSE UNCHANGED <<pc, prompt>>
    /\ UNCHANGED <<raw, alt, cwVars>>

\* the rejected path clearing the typed text
GuessRejectedClears ==
    /\ pc = "play"
    /\ \E ev \in PlayEvents :
          /\ Arm(ev, guess) = "guess"
          /\ event' = ev
    /\ ~is_valid_word(guess)
    /\ guess' = <<>>
    /\ UNCHANGED <<secret_word, guesses, keyboard, raw, alt, pc, prompt, cwVars>>

\* the word is in neither list: mark_letters(None) flashes it
GuessRejected ==
    /\ pc = "play"
    /\ \E ev \in PlayEvents :
          /\ Arm(ev, guess) = "guess"
          /\ event' = ev
    /\ ~is_valid_word(guess)
    /\ UNCHANGED <<secret_word, guesses, guess, keyboard, raw, alt, pc, prompt,
                   cwVars>>

----------------------------------------------------------------------------
\* Game::final_prompt and Game::start_new_round

\* redraw_screen, write_status_bar or event::read fails in final_prompt, or
\* a call of start_new_round or of the redraw that follows it fails
PromptFails ==
    /\ pc = "prompt"
    /\ Fail
    /\ UNCHANGED <<secret_word, event, cwVars>>

\* start_new_round without `self.keyboard = Keyboard::default()`
PromptYesKeepsKeyboard ==
    /\ pc = "prompt"
    /\ \E ev \in PromptEvents :
          /\ PromptArm(ev) = "yes"
          /\ event' = ev
    /\ guess' = <<>>
    /\ guesses' = <<>>
    /\ secret_word' \in WORDS
    /\ pc' = "play"
    /\ prompt' = ""
    /\ UNCHANGED <<keyboard, raw, alt, cwVars>>

\* KeyCode::Char('y') => Some(()): start_new_round, then the 'game loop
\* redraws and reads events again
PromptYes ==
    /\ pc = "prompt"
    /\ \E ev \in PromptEvents :
          /\ PromptArm(ev) = "yes"
          /\ event' = ev
    /\ guess' = <<>>
    /\ guesses' = <<>>
    /\ secret_word' \in WORDS
    /\ keyboard' = KeyboardNew
    /\ pc' = "play"
    /\ prompt' = ""
    /\ UNCHANGED <<raw, alt, cwVars>>

\* KeyCode::Char('n') => None: break 'game
PromptNo ==
    /\ pc = "prompt"
    /\ \E ev \in PromptEvents :
          /\ PromptArm(ev) = "no"
          /\ event' = ev
    /\ pc' = "done"
    /\ Drop
    /\ UNCHANGED <<secret_word, cwVars>>

\* every other key, a resize, a mouse event: the prompt loops
PromptIgnored ==
    /\ pc = "prompt"
    /\ \E ev \in PromptEvents :
          /\ PromptArm(ev) \in {"ignore", "resize", "mouse"}
          /\ event' = ev
    /\ UNCHANGED <<secret_word, guesses, guess, keyboard, raw, alt, pc, prompt,
                   cwVars>>

Next ==
    \/ TerminalNew
    \/ EnableRawModeFails
    \/ ExecuteFails
    \/ PlayFails
    \/ CtrlC
    \/ TypeLetter
    \/ Backspace
    \/ IgnoredKey
    \/ ResizeEvent
    \/ MouseEvent
    \/ GuessAccepted
    \/ GuessRejected
    \/ PromptFails
    \/ PromptYes
    \/ PromptNo
    \/ PromptIgnored

Spec == Init /\ [][Next]_vars

----------------------------------------------------------------------------
\* Stand-alone calls of check_word on every pair of 5-letter words over a
\* small alphabet, and on the pair "allot" / "lolly"

CwLetters == 97..(97 + NumCwLetters - 1)

CwWords == [1..WordLen -> CwLetters]

\* "allot"
allot == <<97, 108, 108, 111, 116>>

\* "lolly"
lolly == <<108, 111, 108, 108, 121>>

InitCW ==
    /\ secret_word = <<>>
    /\ guesses = <<>>
    /\ guess = <<>>
    /\ keyboard = KeyboardNew
    /\ raw = FALSE
    /\ alt = FALSE
    /\ pc = "check_word"
    /\ prompt = ""
    /\ event = NoEvent
    /\ cw_secret \in CwWords \cup {allot}
    /\ cw_guess = <<>>
    /\ cw_matches = <<>>

CallCheckWord ==
    /\ cw_matches = <<>>
    /\ \E g \in CwWords \cup {lolly} :
          /\ cw_guess' = g
          /\ cw_matches' = check_word(cw_secret, g)
    /\ UNCHANGED <<cw_secret, gameVars>>

NextCW == CallCheckWord

SpecCW == InitCW /\ [][NextCW]_vars

----------------------------------------------------------------------------
\* Stand-alone calls of check_word on words that mix upper and lower case

\* number of symbols, taken from CaseOrder, of the mixed-case words
NumCaseSymbols == 3

\* 'a', 'A', 'b', 'B'
CaseOrder == <<97, 65, 98, 66>>

CaseSymbols == {CaseOrder[i] : i \in 1..NumCaseSymbols}

CaseWords == [1..WordLen -> CaseSymbols]

InitCase ==
    /\ secret_word = <<>>
    /\ guesses = <<>>
    /\ guess = <<>>
    /\ keyboard = KeyboardNew
    /\ raw = FALSE
    /\ alt = FALSE
    /\ pc = "check_word"
    /\ prompt = ""
    /\ event = NoEvent
    /\ cw_secret \in CaseWords
    /\ cw_guess = <<>>
    /\ cw_matches = <<>>

CallCheckWordCase ==
    /\ cw_matches = <<>>
    /\ \E g \in CaseWords :
          /\ cw_guess' = g
          /\ cw_matches' = check_word(cw_secret, g)
    /\ UNCHANGED <<cw_secret, gameVars>>

NextCase == CallCheckWordCase

SpecCase == InitCase /\ [][NextCase]_vars

----------------------------------------------------------------------------
\* Properties of check_word (checked under SpecCW)

\* number of indices of word w that hold letter x
Count(w, x) == Cardinality({i \in 1..Len(w) : w[i] = x})

\* number of indices of the guess that hold x and are Correct or Misplaced
Matched(g, matches, x) ==
    Cardinality({i \in 1..Len(g) : g[i] = x /\ matches[i] \in {"Correct", "Misplaced"}})

Min(a, b) == IF a <= b THEN a ELSE b

\* C1: index i is Correct exactly when guess[i] = secret[i], and for every
\* letter x the number of Correct-or-Misplaced occurrences of x in the guess
\* never exceeds the number of occurrences of x in the secret.
C1_CorrectAndBounded ==
    cw_matches # <<>> =>
        /\ Len(cw_matches) = WordLen
        /\ \A i \in 1..WordLen :
              (cw_matches[i] = "Correct") <=> (cw_guess[i] = cw_secret[i])
        /\ Cardinality({i \in 1..WordLen : cw_matches[i] = "Correct"})
             = Cardinality({i \in 1..WordLen : cw_guess[i] = cw_secret[i]})
        /\ \A x \in Range(cw_guess) :
              Matched(cw_guess, cw_matches, x) <= Count(cw_secret, x)

\* a call in which the guess repeats a letter more often than the secret holds
\* it, one occurrence being an exact match and another one left Incorrect
C1_Witness ==
    /\ cw_matches # <<>>
    /\ \E i, j \in 1..WordLen :
          /\ cw_guess[i] = cw_guess[j]
          /\ cw_matches[i] = "Correct"
          /\ cw_matches[j] = "Incorrect"
          /\ Count(cw_guess, cw_guess[i]) > Count(cw_secret, cw_guess[i])

\* the two-pass reference rule, stated by counting
RefMatch(s, g, i) ==
    IF g[i] = s[i] THEN "Correct"
    ELSE IF Cardinality({j \in 1..(i-1) : g[j] # s[j] /\ g[j] = g[i]})
              < Cardinality({k \in 1..Len(s) : s[k] = g[i] /\ g[k] # s[k]})
         THEN "Misplaced"
         ELSE "Incorrect"

\* C2: check_word equals the two-pass reference rule; for every letter x the
\* count of Correct-or-Misplaced occurrences of x is min(occurrences in the
\* guess, occurrences in the secret); secret "allot" with guess "lolly" gives
\* [Misplaced, Misplaced, Correct, Incorrect, Incorrect].
C2_ReferenceRule ==
    cw_matches # <<>> =>
        /\ cw_matches = [i \in 1..WordLen |-> RefMatch(cw_secret, cw_guess, i)]
        /\ \A x \in Range(cw_guess) :
              Matched(cw_guess, cw_matches, x)
                = Min(Count(cw_guess, x), Count(cw_secret, x))
        /\ (cw_secret = allot /\ cw_guess = lolly) =>
              cw_matches = <<"Misplaced", "Misplaced", "Correct",
                             "Incorrect", "Incorrect">>

\* the golden fixture has been evaluated
C2_Witness ==
    /\ cw_secret = allot
    /\ cw_guess = lolly
    /\ cw_matches # <<>>

----------------------------------------------------------------------------
\* Properties of the game (checked under Spec)

\* no accepted guess of the round equals the secret
NoGuessIsSecret == \A i \in 1..Len(guesses) : guesses[i][1] # secret_word

\* this step of the input loop has read an event (event') and handled it
\* without an I/O error
PlayStep == pc = "play" /\ pc' # "error"

\* the event read by this step is Enter on a full guess
SubmitStep == PlayStep /\ event'.code = "Enter" /\ Len(guess) = WordLen

\* C3: in a round in which no accepted guess equals the secret, the round is
\* in play after each of the first five accepted submissions and is Lost
\* exactly at the sixth; rejected and short submissions are not counted.
C3_LostAtSixth ==
    /\ [](NoGuessIsSecret =>
            /\ pc = "play" => Len(guesses) < MaxGuesses
            /\ pc = "prompt" => Len(guesses) = MaxGuesses /\ prompt = "loose")
    /\ [][/\ (pc = "play" /\ Len(guesses') = Len(guesses) + 1
                 /\ guesses'[Len(guesses')][1] # secret_word)
               => IF Len(guesses') = MaxGuesses
                  THEN pc' = "prompt" /\ prompt' = "loose"
                  ELSE pc' = "play"
          /\ (PlayStep /\ event'.code = "Enter"
                 /\ (Len(guess) < WordLen \/ guess \notin WORDS \cup ACCEPTABLE))
               => guesses' = guesses /\ pc' = "play"]_vars

\* the round has been lost with six accepted guesses
C3_Witness ==
    /\ pc = "prompt"
    /\ prompt = "loose"
    /\ Len(guesses) = MaxGuesses
    /\ NoGuessIsSecret

\* C4: submitting a guess equal to the secret on any of attempts 1 to 6 is
\* accepted, classified all-Correct and makes the round Won (unless a terminal
\* write fails); an accepted guess is all-Correct only if it equals the secret.
C4_SecretWins ==
    /\ [](\A i \in 1..Len(guesses) :
             guesses[i][2] = AllCorrect => guesses[i][1] = secret_word)
    /\ [][(SubmitStep /\ guess = secret_word)
             => /\ guesses' = Append(guesses, <<secret_word, AllCorrect>>)
                /\ pc' = "prompt"
                /\ prompt' = "won"]_vars

\* the round has been won on the sixth attempt
C4_Witness ==
    /\ pc = "prompt"
    /\ prompt = "won"
    /\ Len(guesses) = MaxGuesses
    /\ guesses[MaxGuesses] = <<secret_word, AllCorrect>>

\* C5: submitting a 5-letter guess that is in neither WORDS nor ACCEPTABLE
\* changes neither the submitted guesses, the current guess, the keyboard
\* marks nor the secret, and the round stays in play (the session ends only
\* if a terminal write fails).
C5_RejectedUnchanged ==
    [][(SubmitStep /\ guess \notin WORDS \cup ACCEPTABLE)
         => /\ UNCHANGED <<guesses, guess, keyboard, secret_word>>
            /\ pc' = "play"]_vars

\* a full guess that is in neither list has just been rejected and is still
\* there
C5_Witness ==
    /\ pc = "play"
    /\ event.code = "Enter"
    /\ Len(guess) = WordLen
    /\ guess \notin WORDS \cup ACCEPTABLE
    /\ guesses # <<>>

\* the round is over: the last accepted guess is all-Correct, or six guesses
\* have been accepted
Terminal ==
    /\ guesses # <<>>
    /\ \/ guesses[Len(guesses)][2] = AllCorrect
       \/ Len(guesses) = MaxGuesses

\* C6: the round leaves play exactly when the last accepted guess is
\* all-Correct or six guesses have been accepted; is_win and is_loose are
\* never both true; a match on the sixth attempt is a win and not a loss; the
\* prompt reports "won" if and only if the last accepted guess is the secret.
C6_TerminalIffWinOrLoss ==
    /\ pc = "play" => ~Terminal
    /\ pc = "prompt" =>
          /\ Terminal
          /\ prompt \in {"won", "loose"}
          /\ (prompt = "won") <=> (guesses[Len(guesses)][1] = secret_word)
    /\ guesses # <<>> =>
          /\ ~(is_win(guesses) /\ is_loose(guesses))
          /\ (Len(guesses) = MaxGuesses /\ guesses[MaxGuesses][1] = secret_word)
                => is_win(guesses) /\ ~is_loose(guesses)

\* the prompt reports a win before the sixth attempt
C6_Witness ==
    /\ pc = "prompt"
    /\ prompt = "won"
    /\ Len(guesses) < MaxGuesses
    /\ guesses[Len(guesses)][1] = secret_word

\* C7: the current guess has 0 to 5 characters, all lowercase ASCII letters;
\* there are 0 to 6 submitted guesses; every submitted guess has 5
\* characters, is in WORDS or ACCEPTABLE and carries the 5-element
\* classification check_word(secret, guess).
C7_Shape ==
    /\ Len(guess) \in 0..WordLen
    /\ \A i \in 1..Len(guess) : guess[i] \in 97..122
    /\ Len(guesses) \in 0..MaxGuesses
    /\ \A i \in 1..Len(guesses) :
          /\ Len(guesses[i][1]) = WordLen
          /\ guesses[i][1] \in WORDS \cup ACCEPTABLE
          /\ Len(guesses[i][2]) = WordLen
          /\ guesses[i][2] = check_word(secret_word, guesses[i][1])

\* five guesses submitted and a full sixth typed
C7_Witness ==
    /\ pc = "play"
    /\ Len(guesses) = MaxGuesses - 1
    /\ Len(guess) = WordLen

\* C8 (as claimed): during a round a keyboard mark never goes down in the
\* order Correct > Misplaced > Incorrect: a letter marked Correct stays
\* Correct, a letter marked Misplaced is never marked Incorrect.
C8_NeverDowngraded ==
    [][(pc = "play" /\ pc' \in {"play", "prompt"}) =>
         \A x \in DOMAIN keyboard :
            /\ keyboard[x] = "Correct" => keyboard'[x] = "Correct"
            /\ keyboard[x] = "Misplaced" => keyboard'[x] # "Incorrect"]_vars

\* the event is Ctrl-C
IsCtrlC(ev) ==
    ev.type = "Key" /\ ev.code = "Char" /\ ev.ch \in {67, 99}
        /\ ev.modifiers = "CONTROL"

\* C9 (as claimed): whenever a Ctrl-C key event is read, during play or at the
\* end-of-round prompt, the session ends at once and no round is started.
C9_CtrlCAlwaysQuits ==
    [][(pc \in {"play", "prompt"} /\ event' # event /\ IsCtrlC(event'))
         => pc' = "done"]_vars

\* C10: after 'y' at the end-of-round prompt the new round starts with no
\* submitted guesses, an empty current guess, all 26 keyboard letters
\* unmarked and a secret taken from WORDS.
C10_FreshRound ==
    [][(pc = "prompt" /\ pc' = "play")
         => /\ event'.code = "Char" /\ event'.ch = 121
            /\ guesses' = <<>>
            /\ guess' = <<>>
            /\ Cardinality(DOMAIN keyboard') = 26
            /\ \A c \in DOMAIN keyboard' : keyboard'[c] = "None"
            /\ secret_word' \in WORDS]_vars

\* a round started by 'y', before any other event
C10_Witness ==
    /\ pc = "play"
    /\ event.code = "Char"
    /\ event.ch = 121
    /\ guesses = <<>>
    /\ guess = <<>>

----------------------------------------------------------------------------
\* Properties of the game, continued (checked under Spec)

\* the event is one of the out-of-range attempts: a lowercase letter on a full
\* guess, a character that is not a lowercase letter, Backspace on an empty
\* guess, Enter on a short guess
OutOfRange(ev, g) ==
    /\ ~IsCtrlC(ev)
    /\ \/ ev.code = "Char" /\ ev.ch \in 97..122 /\ Len(g) = WordLen
       \/ ev.code = "Char" /\ ev.ch \notin 97..122
       \/ ev.code = "Backspace" /\ g = <<>>
       \/ ev.code = "Enter" /\ Len(g) < WordLen

\* C11: during play, a letter typed on a full guess, a character that is not
\* a lowercase letter, Backspace on an empty guess and Enter on a short guess
\* change neither the current guess, the submitted guesses, the keyboard nor
\* the secret, and the round stays in play.
C11_OutOfRangeNoOp ==
    [][(PlayStep /\ OutOfRange(event', guess))
         => /\ UNCHANGED <<guess, guesses, keyboard, secret_word>>
            /\ pc' = "play"]_vars

\* a letter other than the last one of the full guess has just been typed and
\* ignored
C11_Witness ==
    /\ pc = "play"
    /\ event.code = "Char"
    /\ event.ch \in 97..122
    /\ Len(guess) = WordLen
    /\ guess[WordLen] # event.ch

\* C12 (as claimed): whenever the program has ended, normally or with an
\* error, raw mode is disabled and the screen and cursor are restored.
C12_TerminalRestored ==
    pc \in {"done", "error"} => raw = FALSE /\ alt = FALSE

\* C13: the secret is unchanged by every event of a round and changes only
\* when 'y' starts a new round, so a word accepted twice in a round has the
\* same classification both times.
C13_SecretFixed ==
    /\ [][/\ pc = "play" => secret_word' = secret_word
          /\ secret_word' # secret_word
               => /\ pc = "prompt"
                  /\ pc' = "play"
                  /\ event'.code = "Char"
                  /\ event'.ch = 121]_vars
    /\ [](\A i, j \in 1..Len(guesses) :
             guesses[i][1] = guesses[j][1] => guesses[i][2] = guesses[j][2])

\* the same word has been accepted twice in the round
C13_Witness ==
    /\ pc = "play"
    /\ \E i, j \in 1..Len(guesses) : i < j /\ guesses[i][1] = guesses[j][1]

----------------------------------------------------------------------------
\* Case and check_word (checked under SpecCase)

\* C14 (as claimed): for inputs in any mix of upper and lower case, check_word
\* gives what it gives on the lowercased inputs.
C14_CaseNormalized ==
    cw_matches # <<>> =>
        cw_matches = check_word(lowercase(cw_secret), lowercase(cw_guess))

\* no letter occurs in both its cases among the bytes of the two words
OneCasePerLetter(s, g) ==
    \A x, y \in Range(s) \cup Range(g) :
        to_ascii_lowercase(x) = to_ascii_lowercase(y) => x = y

\* C14 (amended): check_word compares bytes and does not normalize case; when
\* no letter occurs in both its upper-case and its lower-case form in secret
\* and guess, it gives what it gives on the lowercased inputs.
C14_CaseSensitive ==
    (cw_matches # <<>> /\ OneCasePerLetter(cw_secret, cw_guess)) =>
        cw_matches = check_word(lowercase(cw_secret), lowercase(cw_guess))

\* a call on words that hold an upper-case letter, matched exactly at one
\* index and misplaced at another
C14_Witness ==
    /\ cw_matches # <<>>
    /\ OneCasePerLetter(cw_secret, cw_guess)
    /\ \E i, j \in 1..WordLen :
          /\ cw_guess[i] \in 65..90
          /\ cw_matches[i] = "Correct"
          /\ cw_matches[j] = "Misplaced"

----------------------------------------------------------------------------
\* Properties of the keyboard and of submissions (checked under Spec)

\* index of the rightmost occurrence of x in g
LastIndex(g, x) ==
    CHOOSE i \in 1..Len(g) : g[i] = x /\ \A k \in (i+1)..Len(g) : g[k] # x

\* classification of the rightmost occurrence of x in the most recent guess
\* of gs that contains x, "None" if there is none
RECURSIVE LastWrite(_, _)
LastWrite(gs, x) ==
    IF gs = <<>> THEN "None"
    ELSE LET e == gs[Len(gs)]
         IN IF x \in Range(e[1])
            THEN e[2][LastIndex(e[1], x)]
            ELSE LastWrite(SubSeq(gs, 1, Len(gs) - 1), x)

\* this step is a submission that was accepted
AcceptStep ==
    /\ pc = "play"
    /\ pc' \in {"play", "prompt"}
    /\ Len(guesses') = Len(guesses) + 1

\* C15: an accepted submission gives each letter of the guess the
\* classification of its rightmost occurrence in that guess, whatever its
\* previous mark, and leaves every other letter's mark alone; so a letter's
\* mark is always that of its rightmost occurrence in the most recent accepted
\* guess containing it, or unmarked.
C15_LastWriteWins ==
    /\ [](pc \in {"play", "prompt"} =>
            \A x \in DOMAIN keyboard : keyboard[x] = LastWrite(guesses, x))
    /\ [][AcceptStep =>
            LET e == guesses'[Len(guesses')]
            IN \A x \in DOMAIN keyboard :
                  keyboard'[x] = IF x \in Range(e[1])
                                 THEN e[2][LastIndex(e[1], x)]
                                 ELSE keyboard[x]]_vars

\* a letter of the last guess is Correct at one index and the key is
\* Incorrect all the same
C15_Witness ==
    /\ pc = "play"
    /\ guesses # <<>>
    /\ \E i \in 1..WordLen :
          /\ guesses[Len(guesses)][2][i] = "Correct"
          /\ keyboard[guesses[Len(guesses)][1][i]] = "Incorrect"

\* C16 (as claimed): an accepted guess lowers the mark of a letter x only if
\* it contains x at least twice and its occurrences of x do not all get the
\* same classification.
C16_DowngradeNeedsDuplicate ==
    [][AcceptStep =>
         LET e == guesses'[Len(guesses')]
         IN \A x \in DOMAIN keyboard :
               Rank(keyboard'[x]) < Rank(keyboard[x])
                 => /\ Count(e[1], x) >= 2
                    /\ \E i, j \in 1..WordLen :
                          e[1][i] = x /\ e[1][j] = x /\ e[2][i] # e[2][j]]_vars

\* C17: an accepted submission appends exactly the entry (guess text,
\* check_word(secret, guess)), marks the keyboard for the letters of that
\* text and no other, and empties the current guess; within a round the
\* submitted list only grows at its end, one entry per accepted submission.
C17_AppendOnly ==
    /\ [][(SubmitStep /\ guess \in WORDS \cup ACCEPTABLE)
            => LET m == check_word(secret_word, guess)
               IN /\ guesses' = Append(guesses, <<guess, m>>)
                  /\ guess' = <<>>
                  /\ \A x \in DOMAIN keyboard :
                        IF x \in Range(guess)
                        THEN \E i \in 1..WordLen :
                                guess[i] = x /\ keyboard'[x] = m[i]
                        ELSE keyboard'[x] = keyboard[x]]_vars
    /\ [][(pc \in {"play", "prompt"} /\ pc' \in {"play", "prompt"}
              /\ ~(pc = "prompt" /\ pc' = "play"))
            => /\ Len(guesses') \in {Len(guesses), Len(guesses) + 1}
               /\ SubSeq(guesses', 1, Len(guesses)) = guesses
               /\ (Len(guesses') = Len(guesses) + 1)
                     <=> (SubmitStep /\ guess \in WORDS \cup ACCEPTABLE)]_vars

\* a third guess has just been accepted; the round goes on
C17_Witness ==
    /\ pc = "play"
    /\ event.code = "Enter"
    /\ guess = <<>>
    /\ Len(guesses) = 3
    /\ \E x \in Range(guesses[3][1]) : keyboard[x] # "None"

\* C18: the secret of every round is in WORDS and made of lowercase letters;
\* a round in play has fewer than six accepted guesses, and typing the secret
\* and pressing Enter there is accepted and wins.
C18_SecretAccepted ==
    /\ [](/\ secret_word \in WORDS
          /\ Len(secret_word) = WordLen
          /\ \A i \in 1..WordLen : secret_word[i] \in 97..122
          /\ pc = "play" => Len(guesses) < MaxGuesses)
    /\ [][(SubmitStep /\ guess = secret_word)
            => /\ Len(guesses') = Len(guesses) + 1
               /\ guesses'[Len(guesses')][1] = secret_word
               /\ pc' = "prompt"]_vars

\* the secret has been accepted as third guess
C18_Witness ==
    /\ pc = "prompt"
    /\ Len(guesses) = 3
    /\ guesses[3][1] = secret_word
    /\ event.code = "Enter"

\* C19: at the end-of-round prompt 'y' starts a fresh round, 'n' ends the
\* session and every other event changes neither the submitted guesses, the
\* current guess, the keyboard nor the secret and keeps the prompt waiting;
\* no guess text exists while the prompt waits.
C19_PromptOnlyYesNo ==
    /\ [](pc = "prompt" => guess = <<>>)
    /\ [][(pc = "prompt" /\ pc' # "error")
            => IF event'.code = "Char" /\ event'.ch = 121
               THEN pc' = "play" /\ guesses' = <<>> /\ guess' = <<>>
               ELSE IF event'.code = "Char" /\ event'.ch = 110
               THEN pc' = "done"
               ELSE UNCHANGED <<guesses, guess, keyboard, secret_word, pc,
                                prompt>>]_vars

\* the prompt is still waiting after a Backspace
C19_Witness ==
    /\ pc = "prompt"
    /\ event.code = "Backspace"
    /\ guesses # <<>>

\* C20: is_win and is_loose never unwrap an empty history (no panic), and the
\* end-of-round prompt is entered only with at least one accepted guess and
\* is_win or is_loose true.
C20_NoUnwrapPanic ==
    /\ pc # "panic"
    /\ pc = "prompt" =>
          /\ guesses # <<>>
          /\ is_win(guesses) \/ is_loose(guesses)

\* the prompt entered after the very first accepted guess
C20_Witness ==
    /\ pc = "prompt"
    /\ Len(guesses) = 1

====
